---- MODULE Spec2Model ----
(***************************************************************************)
(* Model of app.py: the Streamlit page that fetches daily minimum/maximum  *)
(* temperatures, drops incomplete days, builds one 0.2-degree threshold    *)
(* grid per series, counts the days below/above every threshold and shows  *)
(* summary statistics.                                                     *)
(*                                                                         *)
(* A reading is an integer number of tenths of a degree, so the 0.2 step   *)
(* is 2.  A missing value (NaN) is the empty sequence, a present value t   *)
(* is <<t>>.  A threshold produced by np.arange is a binary floating-point *)
(* sum and need not equal the reading with the same decimal value: it is   *)
(* the record [at |-> g, err |-> e], the grid point g in tenths and the    *)
(* sign e of its rounding error (-1 just below g, 0 equal, 1 just above).  *)
(***************************************************************************)
EXTENDS Integers, Sequences, FiniteSets

\* ---- bounds of the model -------------------------------------------------
MaxDays == 2
\* readings run from -MaxCold tenths of a degree up to 0.0
MaxCold == 1
MaxDate == 2

\* ---- program constants ---------------------------------------------------
\* the 0.2 degree step of np.arange, in tenths of a degree
Step == 2
\* the factor of "x * 5 ... / 5" (one degree holds five steps)
PerDegree == 5 * Step

Temps == (0 - MaxCold)..0
NaN == << >>
Readings == {NaN} \cup {<<t>> : t \in Temps}
Dates == 1..MaxDate

VARIABLES submit_button, start_date, end_date, fetched, raw, df,
          temp_range, cold_days_count, temp_range_max, hot_days_count,
          summary, status

vars == <<submit_button, start_date, end_date, fetched, raw, df,
          temp_range, cold_days_count, temp_range_max, hot_days_count,
          summary, status>>

\* ---- helpers -------------------------------------------------------------
\* floor and ceiling of a / b for b > 0
FloorDiv(a, b) == a \div b
CeilDiv(a, b) == 0 - ((0 - a) \div b)

SetMin(S) == CHOOSE x \in S : \A y \in S : x <= y
SetMax(S) == CHOOSE x \in S : \A y \in S : y <= x

\* the values of one column of the frame
Column(d, col) == {d[i][col][1] : i \in DOMAIN d}
ColMin(d, col) == SetMin(Column(d, col))
ColMax(d, col) == SetMax(Column(d, col))

\* pd.DataFrame(daily_data): one row per returned day, dated in order
daily_data(response) ==
    [i \in 1..Len(response.max) |->
        [date |-> i,
         temperature_2m_max |-> response.max[i],
         temperature_2m_min |-> response.min[i]]]

\* df.dropna(): keep the rows without any missing value, in order
dropna_falsy(d) ==
    SelectSeq(d, LAMBDA r : r.temperature_2m_max \notin {NaN, <<0>>}
                            /\ r.temperature_2m_min \notin {NaN, <<0>>})
dropna(d) ==
    SelectSeq(d, LAMBDA r : r.temperature_2m_max # NaN /\ r.temperature_2m_min # NaN)

\* np.floor(x * 5) / 5
round_to_grid(x) == FloorDiv(5 * x + (PerDegree \div 2), PerDegree) * (PerDegree \div 5)
floor_to_grid(x) == FloorDiv(5 * x, PerDegree) * (PerDegree \div 5)

\* np.ceil(x * 5) / 5
ceil_as_floor(x) == FloorDiv(5 * x, PerDegree) * (PerDegree \div 5)
ceil_to_grid(x) == CeilDiv(5 * x, PerDegree) * (PerDegree \div 5)

\* max_temp + 0.2, the stop handed to np.arange
grid_stop_bare(max_temp) == max_temp
grid_stop(max_temp) == max_temp + Step

\* the rounding error of one np.arange element: below, on or above its grid point
Rounding == {0 - 1, 0, 1}

\* the length np.arange gives its result: ceil((stop - start)/step).  The
\* quotient is evaluated in binary floating point; stop - start is a whole
\* number of steps here, and the computed quotient lands on that integer or
\* just above it (roundUp), which makes the ceiling one larger.
arange_len_closed(start, stop, step, roundUp) ==
    CeilDiv(stop - start, step) + 1 + (IF roundUp THEN 1 ELSE 0)
arange_len(start, stop, step, roundUp) ==
    CeilDiv(stop - start, step) + (IF roundUp THEN 1 ELSE 0)

\* np.arange(start, stop, step): the first element is start itself, element
\* i > 1 is the floating-point value of start + (i-1)*step, whose rounding
\* error has the sign err[i-1]
arange(start, stop, step, roundUp, err) ==
    [i \in 1..arange_len(start, stop, step, roundUp) |->
        [at |-> start + (i - 1) * step,
         err |-> IF i = 1 THEN 0 ELSE err[i - 1]]]

\* reading < threshold and reading > threshold, as the float comparison decides
less_than(v, temp) == v < temp.at \/ (v = temp.at /\ temp.err > 0)
greater_than(v, temp) == v > temp.at \/ (v = temp.at /\ temp.err < 0)

\* len(df[df['temperature_2m_min'] < temp])
cold_days_gt(d, temp) ==
    Len(SelectSeq(d, LAMBDA r : greater_than(r.temperature_2m_min[1], temp)))
cold_days(d, temp) ==
    Len(SelectSeq(d, LAMBDA r : less_than(r.temperature_2m_min[1], temp)))

\* len(df[df['temperature_2m_max'] > temp])
hot_days_ge(d, temp) ==
    Len(SelectSeq(d, LAMBDA r : ~less_than(r.temperature_2m_max[1], temp)))
hot_days(d, temp) ==
    Len(SelectSeq(d, LAMBDA r : greater_than(r.temperature_2m_max[1], temp)))

\* df['temperature_2m_max'].max() - df['temperature_2m_min'].min()
temp_span_of_min(d) == ColMax(d, "temperature_2m_min") - ColMin(d, "temperature_2m_min")
temp_span(d) == ColMax(d, "temperature_2m_max") - ColMin(d, "temperature_2m_min")

\* the values handed to the eight st.metric calls, before their one-decimal
\* formatting; the two averages are left out
metrics(d) ==
    [total_days |-> Len(d),
     coldest_day |-> ColMin(d, "temperature_2m_min"),
     warmest_min |-> ColMax(d, "temperature_2m_min"),
     hottest_day |-> ColMax(d, "temperature_2m_max"),
     coolest_max |-> ColMin(d, "temperature_2m_max"),
     temp_range |-> temp_span(d)]

\* if start_date >= end_date
date_invalid_gt(sd, ed) == sd > ed
date_invalid(sd, ed) == sd >= ed

\* if len(df) == 0
no_valid_data_le1(d) == Len(d) <= 1
no_valid_data(d) == Len(d) = 0

\* the responses the archive can return: two arrays of equal length
Responses ==
    UNION {[max : [1..n -> Readings], min : [1..n -> Readings]] : n \in 0..MaxDays}

\* ---- state machine -------------------------------------------------------
Init ==
    /\ submit_button = FALSE
    /\ start_date = 1
    /\ end_date = MaxDate
    /\ fetched = FALSE
    /\ raw = << >>
    /\ df = << >>
    /\ temp_range = << >>
    /\ cold_days_count = << >>
    /\ temp_range_max = << >>
    /\ hot_days_count = << >>
    /\ summary = << >>
    /\ status = "idle"

\* the form is submitted: the script reruns from the top with an empty page
Submit(sd, ed) ==
    /\ ~submit_button
    /\ submit_button' = TRUE
    /\ start_date' = sd
    /\ end_date' = ed
    /\ fetched' = FALSE
    /\ raw' = << >>
    /\ df' = << >>
    /\ temp_range' = << >>
    /\ cold_days_count' = << >>
    /\ temp_range_max' = << >>
    /\ hot_days_count' = << >>
    /\ summary' = << >>
    /\ status' = "running"

\* if start_date >= end_date: st.error, nothing else
DateError ==
    /\ submit_button
    /\ date_invalid(start_date, end_date)
    /\ submit_button' = FALSE
    /\ status' = "date_error"
    /\ UNCHANGED <<start_date, end_date, fetched, raw, df, temp_range,
                   cold_days_count, temp_range_max, hot_days_count, summary>>

\* weather_api (or the frame construction) raises: the except branch
FetchError ==
    /\ submit_button
    /\ ~date_invalid(start_date, end_date)
    /\ submit_button' = FALSE
    /\ fetched' = TRUE
    /\ status' = "fetch_error"
    /\ UNCHANGED <<start_date, end_date, raw, df, temp_range,
                   cold_days_count, temp_range_max, hot_days_count, summary>>

\* the fetch succeeds and no row survives dropna
NoValidData ==
    /\ submit_button
    /\ ~date_invalid(start_date, end_date)
    /\ \E response \in Responses :
          /\ no_valid_data(dropna(daily_data(response)))
          /\ raw' = daily_data(response)
          /\ df' = dropna(daily_data(response))
    /\ submit_button' = FALSE
    /\ fetched' = TRUE
    /\ status' = "no_data"
    /\ UNCHANGED <<start_date, end_date, temp_range, cold_days_count,
                   temp_range_max, hot_days_count, summary>>

\* the fetch succeeds and the analysis runs on the cleaned frame; roundUpMin,
\* errMin, roundUpMax and errMax are the rounding outcomes of the two
\* np.arange calls
Analyze ==
    /\ submit_button
    /\ ~date_invalid(start_date, end_date)
    /\ \E response \in Responses, roundUpMin \in BOOLEAN, roundUpMax \in BOOLEAN :
          LET d == dropna(daily_data(response))
              min_temp == floor_to_grid(ColMin(d, "temperature_2m_min"))
              max_temp == ceil_to_grid(ColMax(d, "temperature_2m_min"))
              len_min == arange_len(min_temp, grid_stop(max_temp), Step, roundUpMin)
              min_temp_max == floor_to_grid(ColMin(d, "temperature_2m_max"))
              max_temp_max == ceil_to_grid(ColMax(d, "temperature_2m_max"))
              len_max == arange_len(min_temp_max, grid_stop(max_temp_max), Step, roundUpMax)
          IN  /\ ~no_valid_data(d)
              /\ raw' = daily_data(response)
              /\ df' = d
              /\ \E errMin \in [1..(len_min - 1) -> Rounding] :
                    /\ temp_range' =
                          arange(min_temp, grid_stop(max_temp), Step, roundUpMin, errMin)
                    /\ cold_days_count' =
                          [i \in DOMAIN temp_range' |-> cold_days(d, temp_range'[i])]
              /\ \E errMax \in [1..(len_max - 1) -> Rounding] :
                    /\ temp_range_max' =
                          arange(min_temp_max, grid_stop(max_temp_max), Step, roundUpMax, errMax)
                    /\ hot_days_count' =
                          [i \in DOMAIN temp_range_max' |-> hot_days(d, temp_range_max'[i])]
              /\ summary' = <<metrics(d)>>
    /\ submit_button' = FALSE
    /\ fetched' = TRUE
    /\ status' = "ok"
    /\ UNCHANGED <<start_date, end_date>>

\* one script run: the form event, then the "if submit_button:" block taking
\* one of its four branches with whatever the archive returns
Next ==
    \/ \E sd \in Dates, ed \in Dates : Submit(sd, ed)
    \/ DateError
    \/ FetchError
    \/ NoValidData
    \/ Analyze

Spec == Init /\ [][Next]_vars

\* ---- properties ----------------------------------------------------------
Analysed == status = "ok"
Complete(r) == r.temperature_2m_max # NaN /\ r.temperature_2m_min # NaN
MinOf(k) == df[k].temperature_2m_min[1]
MaxOf(k) == df[k].temperature_2m_max[1]
Last(s) == s[Len(s)]
OnGrid(v) == v % Step = 0
\* the grid points next to a value, found by search rather than by division
GridFloor(v) == CHOOSE g \in (v - Step + 1)..v : OnGrid(g)
GridCeil(v) == CHOOSE g \in v..(v + Step - 1) : OnGrid(g)
LeastMin == CHOOSE v \in {MinOf(k) : k \in DOMAIN df} : \A k \in DOMAIN df : v <= MinOf(k)
GreatestMin == CHOOSE v \in {MinOf(k) : k \in DOMAIN df} : \A k \in DOMAIN df : MinOf(k) <= v
LeastMax == CHOOSE v \in {MaxOf(k) : k \in DOMAIN df} : \A k \in DOMAIN df : v <= MaxOf(k)
GreatestMax == CHOOSE v \in {MaxOf(k) : k \in DOMAIN df} : \A k \in DOMAIN df : MaxOf(k) <= v
NoOutput ==
    /\ temp_range = << >> /\ cold_days_count = << >>
    /\ temp_range_max = << >> /\ hot_days_count = << >>
    /\ summary = << >>

\* C1: every cold count is the number of cleaned days whose minimum is strictly
\* below the threshold at the same position, every hot count the number whose
\* maximum is strictly above it; a value equal to the threshold is not counted,
\* and each table has one count per threshold.
C1_StrictCounts ==
    Analysed =>
        /\ DOMAIN cold_days_count = DOMAIN temp_range
        /\ DOMAIN hot_days_count = DOMAIN temp_range_max
        /\ \A i \in DOMAIN temp_range :
              /\ cold_days_count[i] =
                    Cardinality({k \in DOMAIN df : less_than(MinOf(k), temp_range[i])})
              /\ temp_range[i].err = 0 =>
                    cold_days_count[i] =
                       Cardinality({k \in DOMAIN df : MinOf(k) < temp_range[i].at})
        /\ \A i \in DOMAIN temp_range_max :
              /\ hot_days_count[i] =
                    Cardinality({k \in DOMAIN df : greater_than(MaxOf(k), temp_range_max[i])})
              /\ temp_range_max[i].err = 0 =>
                    hot_days_count[i] =
                       Cardinality({k \in DOMAIN df : MaxOf(k) > temp_range_max[i].at})
C1_Witness ==
    /\ Analysed
    /\ \E i \in DOMAIN temp_range : \E k \in DOMAIN df :
          /\ i > 1 /\ temp_range[i] = [at |-> MinOf(k), err |-> 0]
          /\ cold_days_count[i] = 1
    /\ \E i \in DOMAIN temp_range_max : \E k \in DOMAIN df :
          /\ i > 1 /\ temp_range_max[i] = [at |-> MaxOf(k), err |-> 0]
          /\ hot_days_count[i] = 0 /\ hot_days_count[1] = 2

\* C2 as stated: each grid starts at lo, advances one step per element, has
\* (hi - lo)/step + 2 points and ends at hi + step.
C2_GuardStepAlways ==
    Analysed =>
        /\ Len(temp_range) = ((GridCeil(GreatestMin) - GridFloor(LeastMin)) \div Step) + 2
        /\ Last(temp_range).at = GridCeil(GreatestMin) + Step
        /\ Len(temp_range_max) = ((GridCeil(GreatestMax) - GridFloor(LeastMax)) \div Step) + 2
        /\ Last(temp_range_max).at = GridCeil(GreatestMax) + Step
\* C2 amended: each grid starts exactly at lo and its i-th element is the
\* floating-point value of lo + i*step, the grid point up to its rounding error;
\* it has (hi - lo)/step + 1 points and ends at hi, the stop hi + step being
\* excluded, or one point more, ending at hi + step, when the rounded length
\* quotient lands above the integer.
GridShape(grid, lo, hi) ==
    /\ Len(grid) >= 1
    /\ grid[1] = [at |-> lo, err |-> 0]
    /\ \A i \in DOMAIN grid :
          grid[i].at = lo + (i - 1) * Step /\ grid[i].err \in {0 - 1, 0, 1}
    /\ \/ Len(grid) = ((hi - lo) \div Step) + 1 /\ Last(grid).at = hi
       \/ Len(grid) = ((hi - lo) \div Step) + 2 /\ Last(grid).at = hi + Step
C2_GridEndsAtHi ==
    Analysed =>
        /\ GridShape(temp_range, GridFloor(LeastMin), GridCeil(GreatestMin))
        /\ GridShape(temp_range_max, GridFloor(LeastMax), GridCeil(GreatestMax))
C2_Witness ==
    /\ Analysed
    /\ Len(temp_range) = ((GridCeil(GreatestMin) - GridFloor(LeastMin)) \div Step) + 1
    /\ Len(temp_range) >= 2
    /\ Last(temp_range).at = GridCeil(GreatestMin)
    /\ ~OnGrid(GreatestMin)

\* C3: each grid is non-empty, strictly increasing and spans its series: the
\* first threshold is at most the floored minimum, the last at least the
\* ceiled maximum, so every value lies in [first, last].
Spans(grid, least, greatest) ==
    /\ Len(grid) >= 1
    /\ \A i \in 1..(Len(grid) - 1) : grid[i].at < grid[i + 1].at
    \* first <= floored minimum: the floored minimum is not below the first
    /\ ~less_than(GridFloor(least), grid[1])
    \* last >= ceiled maximum: the ceiled maximum is not above the last
    /\ ~greater_than(GridCeil(greatest), Last(grid))
C3_GridCoversSeries ==
    Analysed =>
        /\ Spans(temp_range, LeastMin, GreatestMin)
        /\ Spans(temp_range_max, LeastMax, GreatestMax)
        /\ \A k \in DOMAIN df :
              /\ ~less_than(MinOf(k), temp_range[1])
              /\ ~greater_than(MinOf(k), Last(temp_range))
              /\ ~less_than(MaxOf(k), temp_range_max[1])
              /\ ~greater_than(MaxOf(k), Last(temp_range_max))

\* C4 as stated: the cold count at the last threshold is the number of cleaned
\* days, also when the largest minimum lies on a grid point.
C4_LastColdIsTotal ==
    Analysed => Len(cold_days_count) >= 1 /\ Last(cold_days_count) = Len(df)
\* C4 amended: the cold count at the last threshold is the number of cleaned
\* days whenever the last threshold is above the largest minimum, which is the
\* case whenever that minimum is off the grid; otherwise (the grid ends on the
\* largest minimum or a rounding error below it) the days that attain the
\* largest minimum are not counted.
C4_LastColdUnlessOnGrid ==
    Analysed =>
        /\ Len(cold_days_count) >= 1
        /\ ~OnGrid(GreatestMin) => Last(cold_days_count) = Len(df)
        /\ less_than(GreatestMin, Last(temp_range)) => Last(cold_days_count) = Len(df)
        /\ ~less_than(GreatestMin, Last(temp_range)) =>
              /\ Last(temp_range).at = GreatestMin
              /\ Last(cold_days_count) =
                    Len(df) - Cardinality({k \in DOMAIN df : MinOf(k) = GreatestMin})
C4_Witness ==
    /\ Analysed
    /\ Len(df) >= 2
    /\ ~OnGrid(GreatestMin)
    /\ Last(temp_range).at = GridCeil(GreatestMin)
    /\ Last(cold_days_count) = Len(df)

\* C5: cold counts never decrease along the grid, hot counts never increase.
C5_Monotone ==
    Analysed =>
        /\ \A i \in 1..(Len(cold_days_count) - 1) :
              cold_days_count[i] <= cold_days_count[i + 1]
        /\ \A i \in 1..(Len(hot_days_count) - 1) :
              hot_days_count[i] >= hot_days_count[i + 1]
C5_Witness ==
    /\ Analysed
    /\ \E i \in 1..(Len(cold_days_count) - 1) :
          0 < cold_days_count[i] /\ cold_days_count[i] < cold_days_count[i + 1]
    /\ \E i \in 1..(Len(hot_days_count) - 1) :
          hot_days_count[i] > hot_days_count[i + 1] /\ hot_days_count[i + 1] > 0

\* C6: the cleaned frame holds exactly the fetched days with both temperatures
\* present, in their original order; a day missing either one is in neither
\* series nor in the day count, and the frame is no longer than the input.
C6_CleanKeepsComplete ==
    status \in {"ok", "no_data"} =>
        /\ Len(df) <= Len(raw)
        /\ Len(df) = Cardinality({i \in DOMAIN raw : Complete(raw[i])})
        /\ \A k \in DOMAIN df :
              /\ df[k].date \in DOMAIN raw
              /\ df[k] = raw[df[k].date]
              /\ df[k].temperature_2m_min # NaN /\ df[k].temperature_2m_max # NaN
        /\ \A k \in 1..(Len(df) - 1) : df[k].date < df[k + 1].date
        /\ \A i \in DOMAIN raw :
              Complete(raw[i]) <=> \E k \in DOMAIN df : df[k].date = i
        /\ Analysed =>
              summary[1].total_days = Cardinality({i \in DOMAIN raw : Complete(raw[i])})
C6_Witness ==
    /\ Analysed
    /\ Len(df) = 1 /\ Len(raw) = 2
    /\ df[1].date = 2
    /\ raw[1].temperature_2m_min # NaN /\ raw[1].temperature_2m_max = NaN
    /\ cold_days_count[Len(cold_days_count)] <= 1

\* C7: a run whose cleaning leaves no sample ends in the no-valid-data error
\* with no grid, table or statistic; these exist only in a run that ends
\* successfully, and such a run has at least one cleaned sample.
C7_EmptySeriesError ==
    /\ status = "no_data" =>
          /\ NoOutput /\ df = << >>
          /\ \A i \in DOMAIN raw : ~Complete(raw[i])
    /\ (status \in {"ok", "no_data"} /\ \A i \in DOMAIN raw : ~Complete(raw[i])) =>
          status = "no_data"
    /\ ~NoOutput => Analysed
    /\ Analysed =>
          /\ Len(df) >= 1
          /\ \E i \in DOMAIN raw : Complete(raw[i])
          /\ temp_range # << >> /\ cold_days_count # << >>
          /\ temp_range_max # << >> /\ hot_days_count # << >>
          /\ summary # << >>
C7_Witness ==
    /\ status = "no_data"
    /\ Len(raw) = 2
    /\ raw[1].temperature_2m_min = NaN /\ raw[1].temperature_2m_max # NaN
    /\ raw[2].temperature_2m_max = NaN /\ raw[2].temperature_2m_min # NaN
    /\ NoOutput

\* C8: the summary holds one day count (the cleaned length), the least and
\* greatest minimum, the least and greatest maximum, and as range the greatest
\* maximum minus the least minimum.
C8_Summary ==
    Analysed =>
        /\ Len(summary) = 1
        /\ summary[1].total_days = Len(df)
        /\ summary[1].coldest_day = LeastMin
        /\ summary[1].warmest_min = GreatestMin
        /\ summary[1].coolest_max = LeastMax
        /\ summary[1].hottest_day = GreatestMax
        /\ summary[1].temp_range = GreatestMax - LeastMin
C8_Witness ==
    /\ Analysed
    /\ Len(df) >= 2
    /\ summary[1].temp_range # GreatestMin - LeastMin
    /\ summary[1].temp_range # GreatestMax - LeastMax
    /\ summary[1].temp_range > 0

\* C9: the cold count at the first threshold and the hot count at the last
\* threshold are 0, and every count lies between 0 and the number of cleaned
\* days.
C9_EndCountsZero ==
    Analysed =>
        /\ Len(cold_days_count) >= 1 /\ Len(hot_days_count) >= 1
        /\ cold_days_count[1] = 0
        /\ Last(hot_days_count) = 0
        /\ \A i \in DOMAIN cold_days_count : cold_days_count[i] \in 0..Len(df)
        /\ \A i \in DOMAIN hot_days_count : hot_days_count[i] \in 0..Len(df)

\* C10: a submission with start date >= end date ends in the date error with
\* no fetch, no cleaning and no analysis; a fetch happens only when the start
\* date is strictly before the end date.
C10_DateGuard ==
    /\ status = "date_error" =>
          /\ start_date >= end_date
          /\ ~fetched /\ raw = << >> /\ df = << >> /\ NoOutput
    /\ (status \notin {"idle", "running"} /\ start_date >= end_date) =>
          status = "date_error"
    /\ fetched => start_date < end_date
C10_Witness ==
    /\ status = "date_error"
    /\ start_date = end_date
    /\ ~fetched

====
